---- MODULE Spec2Model ----
(***************************************************************************)
(* State-machine model of DesktopBrowserWindow                             *)
(* (src/node/desktop/src/main/desktop-browser-window.ts): the wrapper      *)
(* around one Electron BrowserWindow and its handlers for will-navigate,   *)
(* new-window requests, page-title-updated, did-finish-load,               *)
(* did-fail-load, close and closed.                                        *)
(*                                                                         *)
(* Strings are TLA+ strings; the string operations the handlers rely on    *)
(* (String.prototype.includes, the WHATWG URL parser behind `new URL`)     *)
(* are computed character by character.                                    *)
(***************************************************************************)
EXTENDS Integers, Sequences, FiniteSets, TLC

(***************************************************************************)
(* Bounds                                                                  *)
(***************************************************************************)
\* most script promises (executeJavaScript) that may be unsettled at once
MaxPending == 1

(***************************************************************************)
(* String helpers                                                          *)
(***************************************************************************)
charAt(s, i) == SubSeq(s, i, i)

UpperChars == "ABCDEFGHIJKLMNOPQRSTUVWXYZ"
LowerChars == "abcdefghijklmnopqrstuvwxyz"
DigitChars == "0123456789"

\* s.includes(c) for a one-character c drawn from a character class
inClass(c, class) == \E i \in 1..Len(class) : charAt(class, i) = c

isAlpha(c) == inClass(c, UpperChars) \/ inClass(c, LowerChars)
isDigit(c) == inClass(c, DigitChars)

toLowerChar(c) ==
  IF inClass(c, UpperChars)
    THEN charAt(LowerChars, CHOOSE i \in 1..26 : charAt(UpperChars, i) = c)
    ELSE c

RECURSIVE toLowerCase(_)
toLowerCase(s) ==
  IF Len(s) = 0 THEN ""
  ELSE toLowerChar(charAt(s, 1)) \o toLowerCase(SubSeq(s, 2, Len(s)))

\* String.prototype.includes: sub occurs in s as a contiguous run
includes(s, sub) ==
  \E i \in 1..(Len(s) - Len(sub) + 1) : SubSeq(s, i, i + Len(sub) - 1) = sub

\* position of the first character of s at or after `from` that lies in
\* class, or Len(s) + 1 when there is none
RECURSIVE indexOfClass(_, _, _)
indexOfClass(s, class, from) ==
  IF from > Len(s) THEN Len(s) + 1
  ELSE IF inClass(charAt(s, from), class) THEN from
  ELSE indexOfClass(s, class, from + 1)

\* position of the last occurrence of the character c in s, 0 when absent
RECURSIVE lastIndexOf(_, _, _)
lastIndexOf(s, c, from) ==
  IF from < 1 THEN 0
  ELSE IF charAt(s, from) = c THEN from
  ELSE lastIndexOf(s, c, from - 1)

allInClass(s, class) == \A i \in 1..Len(s) : inClass(charAt(s, i), class)

RECURSIVE trimStart(_)
trimStart(s) ==
  IF Len(s) > 0 /\ charAt(s, 1) = " " THEN trimStart(SubSeq(s, 2, Len(s))) ELSE s

RECURSIVE trimEnd(_)
trimEnd(s) ==
  IF Len(s) > 0 /\ charAt(s, Len(s)) = " " THEN trimEnd(SubSeq(s, 1, Len(s) - 1)) ELSE s

RECURSIVE parseDecimal(_)
parseDecimal(s) ==
  IF Len(s) = 0 THEN 0
  ELSE 10 * parseDecimal(SubSeq(s, 1, Len(s) - 1))
       + ((CHOOSE i \in 1..10 : charAt(DigitChars, i) = charAt(s, Len(s))) - 1)

(***************************************************************************)
(* new URL(url): the WHATWG URL parser with no base URL, for the           *)
(* part of the grammar the handlers depend on: scheme, authority           *)
(* (credentials, host, port) and the rest.  A failed parse is the          *)
(* TypeError the handlers catch.                                           *)
(***************************************************************************)
SpecialSchemes == {"http", "https", "ws", "wss", "ftp"}

defaultPort(scheme) ==
  CASE scheme = "http"  -> "80"
    [] scheme = "https" -> "443"
    [] scheme = "ws"    -> "80"
    [] scheme = "wss"   -> "443"
    [] scheme = "ftp"   -> "21"
    [] OTHER            -> "none"

SchemeChars == UpperChars \o LowerChars \o DigitChars \o "+-."
HexChars == DigitChars \o "abcdefABCDEF"
\* forbidden host code points (those that can still occur once the
\* authority has been cut at / \ ? # and split at @ and :)
ForbiddenHostChars == " <>[]^|%"

URLFailure == [ok |-> FALSE, protocol |-> "", hostname |-> "", port |-> "",
               host |-> "", href |-> ""]

\* decimal rendering of a natural number
RECURSIVE toDecimal(_)
toDecimal(n) ==
  IF n < 10 THEN charAt(DigitChars, n + 1)
  ELSE toDecimal(n \div 10) \o charAt(DigitChars, (n % 10) + 1)

\* the dot-separated labels of a host
RECURSIVE splitDots(_)
splitDots(s) ==
  LET dot == indexOfClass(s, ".", 1)
  IN  IF dot > Len(s) THEN <<s>>
      ELSE <<SubSeq(s, 1, dot - 1)>> \o splitDots(SubSeq(s, dot + 1, Len(s)))

pow256(n) == CASE n = 0 -> 1 [] n = 1 -> 256 [] n = 2 -> 65536 [] OTHER -> 16777216

\* the IPv4 parser for decimal parts of at most nine digits (hexadecimal
\* and octal parts are not modelled): the last part fills the remaining
\* bytes, so 127.1 is 127.0.0.1; the address is serialised as four
\* decimal bytes
ipv4Parse(input) ==
  LET parts == splitDots(input)
      n     == Len(parts)
      nums  == [i \in 1..n |-> parseDecimal(parts[i])]
      valid == /\ n <= 4
               /\ \A i \in 1..n : Len(parts[i]) > 0 /\ Len(parts[i]) <= 9
                                    /\ allInClass(parts[i], DigitChars)
               /\ \A i \in 1..(n - 1) : nums[i] <= 255
               /\ (n > 1 => nums[n] < pow256(5 - n))
      byte(k) == IF k < n THEN nums[k] ELSE (nums[n] \div pow256(4 - k)) % 256
  IN  IF ~valid THEN [ok |-> FALSE, hostname |-> ""]
      ELSE [ok |-> TRUE,
            hostname |-> toDecimal(byte(1)) \o "." \o toDecimal(byte(2)) \o "."
                         \o toDecimal(byte(3)) \o "." \o toDecimal(byte(4))]

\* the host parser: an IPv6 literal keeps its brackets in the serialised
\* host (its groups are not re-compressed here); a domain is lower-cased;
\* a host whose last label is a number is an IPv4 address; a forbidden
\* code point or an empty host of a special scheme is a failure
hostParse(raw, special) ==
  IF Len(raw) > 0 /\ charAt(raw, 1) = "["
    THEN IF Len(raw) > 2 /\ charAt(raw, Len(raw)) = "]"
              /\ allInClass(SubSeq(raw, 2, Len(raw) - 1), HexChars \o ":")
              /\ includes(raw, ":")
           THEN [ok |-> TRUE, hostname |-> toLowerCase(raw)]
           ELSE [ok |-> FALSE, hostname |-> ""]
  ELSE IF \E i \in 1..Len(raw) : inClass(charAt(raw, i), ForbiddenHostChars)
    THEN [ok |-> FALSE, hostname |-> ""]
  ELSE IF special
    THEN IF Len(raw) = 0 THEN [ok |-> FALSE, hostname |-> ""]
         ELSE LET labels == splitDots(raw)
                  last   == labels[Len(labels)]
              IN  IF Len(last) > 0 /\ allInClass(last, DigitChars)
                    THEN ipv4Parse(raw)
                    ELSE [ok |-> TRUE, hostname |-> toLowerCase(raw)]
  ELSE [ok |-> TRUE, hostname |-> raw]

\* authority = [credentials@]host[:port]
authorityParse(scheme, authority, rest) ==
  LET special  == scheme \in SpecialSchemes
      at       == lastIndexOf(authority, "@", Len(authority))
      hostport == SubSeq(authority, at + 1, Len(authority))
      closeB   == lastIndexOf(hostport, "]", Len(hostport))
      colon    == lastIndexOf(hostport, ":", Len(hostport))
      hasPort  == colon > closeB
      rawHost  == IF hasPort THEN SubSeq(hostport, 1, colon - 1) ELSE hostport
      rawPort  == IF hasPort THEN SubSeq(hostport, colon + 1, Len(hostport)) ELSE ""
      h        == hostParse(rawHost, special)
      portOk   == allInClass(rawPort, DigitChars) /\ Len(rawPort) <= 5
                    /\ parseDecimal(rawPort) <= 65535
      port     == IF rawPort = defaultPort(scheme) THEN "" ELSE rawPort
      host     == IF port = "" THEN h.hostname ELSE h.hostname \o ":" \o port
      path     == IF special /\ (Len(rest) = 0 \/ ~inClass(charAt(rest, 1), "/\\"))
                    THEN "/" \o rest ELSE rest
  IN  IF ~h.ok \/ ~portOk THEN URLFailure
      ELSE [ok |-> TRUE, protocol |-> scheme \o ":", hostname |-> h.hostname,
            port |-> port, host |-> host,
            href |-> scheme \o "://" \o SubSeq(authority, 1, at) \o host \o path]

newURL(url) ==
  LET input    == trimEnd(trimStart(url))
      colon    == indexOfClass(input, ":", 1)
      rawSch   == SubSeq(input, 1, colon - 1)
      scheme   == toLowerCase(rawSch)
      afterSch == SubSeq(input, colon + 1, Len(input))
      special  == scheme \in SpecialSchemes
      \* special schemes ignore any run of slashes before the authority;
      \* other schemes have an authority only after exactly "//"
      slashes  == IF special
                    THEN (CHOOSE n \in 0..Len(afterSch) :
                            /\ \A i \in 1..n : inClass(charAt(afterSch, i), "/\\")
                            /\ (n < Len(afterSch) => ~inClass(charAt(afterSch, n + 1), "/\\")))
                    ELSE IF Len(afterSch) >= 2 /\ SubSeq(afterSch, 1, 2) = "//" THEN 2 ELSE 0
      body     == SubSeq(afterSch, slashes + 1, Len(afterSch))
      authEnd  == indexOfClass(body, IF special THEN "/\\?#" ELSE "/?#", 1)
      authority == SubSeq(body, 1, authEnd - 1)
      rest     == SubSeq(body, authEnd, Len(body))
  IN  IF colon > Len(input) \/ Len(rawSch) = 0 \/ ~isAlpha(charAt(input, 1))
         \/ ~allInClass(rawSch, SchemeChars)
        THEN URLFailure
      ELSE IF special \/ slashes = 2
        THEN authorityParse(scheme, authority, rest)
      ELSE [ok |-> TRUE, protocol |-> scheme \o ":", hostname |-> "", port |-> "",
            host |-> "", href |-> scheme \o ":" \o afterSch]

(***************************************************************************)
(* Inputs                                                                  *)
(***************************************************************************)
\* an optional value is a set: {} is undefined, {v} is the value v
Undefined == {}
Some(v) == {v}
valueOf(o) == CHOOSE v \in o : TRUE

\* a ?? b on an optional boolean
nullish(o, default) == IF o = Undefined THEN default ELSE valueOf(o)

\* JavaScript truthiness of an optional string: undefined and '' are falsy
truthy(o) == \E v \in o : v # ""

Names == {"main", "_rstudio_satellite_plot", "Satellite_1"}
BaseUrls == {Undefined, Some(""), Some("http://localhost:8787/")}
Openers == {Undefined, Some("openerContents")}
ExistingWindows == {Undefined, Some("adoptedWindow")}
Titles == {"RStudio", "Plot Zoom"}
InitialTitle == "Electron"

NavigateUrls ==
  { "HTTP://LocalHost:8787/x", "http://127.0.0.1:8787/a", "http://127.1/",
    "http://[::1]:8787/", "https://www.youtube.com/watch",
    "https://Evil.Example.com", "mailto:a@b.c",
    "not a url", "http://exa mple.com/", "//example.com/x" }

OpenUrls == {"https://www.rstudio.com/"}
\* process.platform, as the key handler reads it
Platforms == {"darwin", "win32"}
\* before-input-event: the meta modifier and the key
Inputs == [meta : BOOLEAN, key : {"W", "q"}]
Dispositions == {"foreground-tab", "background-tab", "new-window", "other"}

\* new URL(url) for every URL string the events carry, parsed once
URL == [url \in NavigateUrls |-> newURL(url)]

\* what appState().windowOpening() may answer
OpeningDecisions == {"allow", "deny"}

\* the constructor's argument: any combination of present and omitted options
WindowConstructorOptions ==
  [ showToolbar : {Undefined, Some(TRUE), Some(FALSE)},
    adjustTitle : {Undefined, Some(TRUE), Some(FALSE)},
    allowExternalNavigate : {Undefined, Some(TRUE), Some(FALSE)},
    name : Names,
    baseUrl : BaseUrls,
    opener : Openers,
    existingWindow : ExistingWindows ]

(***************************************************************************)
(* Collaborators                                                           *)
(***************************************************************************)
endsWith(s, suffix) ==
  Len(s) >= Len(suffix) /\ SubSeq(s, Len(s) - Len(suffix) + 1, Len(s)) = suffix

\* the safe-host predicate: a fixed allow-list of host suffixes
SafeHosts == {".youtube.com", ".vimeo.com", ".c9.ms", ".google.com"}
isSafeHost(host) == \E safeHost \in SafeHosts : endsWith(host, safeHost)

(***************************************************************************)
(* The wrapper's handlers, as functions from the options, the state and    *)
(* the event to the calls they make.                                       *)
(***************************************************************************)
\* constructor: defaults for the optional arguments
setDefaults(o) ==
  [ o EXCEPT !.showToolbar = nullish(o.showToolbar, FALSE),
             !.adjustTitle = nullish(o.adjustTitle, FALSE),
             !.allowExternalNavigate = nullish(o.allowExternalNavigate, FALSE) ]

\* variant: a window is created even when one is supplied
constructWindow_alwaysCreates(o) == "createdWindow"

\* constructor: adopt the existing window or create one
constructWindow(o) ==
  IF o.existingWindow # Undefined THEN valueOf(o.existingWindow) ELSE "createdWindow"

\* the calls of one handler run; every handler fills in only its own fields
NoCalls ==
  [ prevented |-> FALSE,     \* event.preventDefault() was called
    external  |-> <<>>,      \* arguments of shell.openExternal, in order
    logged    |-> 0,         \* number of logger().logError calls
    returned  |-> "none",    \* action returned by the window-open handler
    finish    |-> <<>>,      \* arguments of finishLoading, in order
    setTitle  |-> <<>>,      \* arguments of window.setTitle, in order
    scripts   |-> <<>>,      \* arguments of executeJavaScript, in order
    toolbars  |-> 0,         \* number of createAndShowToolbar calls
    emitted   |-> <<>> ]     \* notifications emitted by the wrapper

\* variant: the external browser is handed the normalised href
willNavigateExternal_href(url) ==
  LET targetUrl == URL[url]
  IN  IF ~targetUrl.ok
        THEN [NoCalls EXCEPT !.logged = 1, !.prevented = TRUE]
      ELSE IF ~isSafeHost(targetUrl.host)
        THEN [NoCalls EXCEPT !.prevented = TRUE, !.external = <<targetUrl.href>>]
      ELSE NoCalls

\* variant: the safe-host list is not consulted
willNavigateExternal_noSafeList(url) ==
  LET targetUrl == URL[url]
  IN  IF ~targetUrl.ok
        THEN [NoCalls EXCEPT !.logged = 1, !.prevented = TRUE]
      ELSE [NoCalls EXCEPT !.prevented = TRUE, !.external = <<url>>]

\* variant: an unsafe host is vetoed without opening the external browser
willNavigateExternal_silent(url) ==
  LET targetUrl == URL[url]
  IN  IF ~targetUrl.ok
        THEN [NoCalls EXCEPT !.logged = 1, !.prevented = TRUE]
      ELSE IF ~isSafeHost(targetUrl.host)
        THEN [NoCalls EXCEPT !.prevented = TRUE]
      ELSE NoCalls

\* the branch of will-navigate taken when external navigation is not allowed
willNavigateExternal(url) ==
  LET targetUrl == URL[url]
  IN  IF ~targetUrl.ok
        THEN [NoCalls EXCEPT !.logged = 1, !.prevented = TRUE]
      ELSE IF ~isSafeHost(targetUrl.host)
        THEN [NoCalls EXCEPT !.prevented = TRUE, !.external = <<url>>]
      ELSE NoCalls

isLocal(host) == host = "localhost" \/ host = "127.0.0.1" \/ host = "::1"

\* variant: a URL that fails to parse is handed to the external browser
willNavigate_opensMalformed(opts, url) ==
  LET targetUrl == URL[url]
  IN  IF ~targetUrl.ok
        THEN [NoCalls EXCEPT !.logged = 1, !.prevented = TRUE, !.external = <<url>>]
      ELSE IF isLocal(targetUrl.hostname) THEN NoCalls
      ELSE IF ~opts.allowExternalNavigate THEN willNavigateExternal(url)
      ELSE NoCalls

\* variant: allowExternalNavigate is not consulted
willNavigate_ignoresAllow(opts, url) ==
  LET targetUrl == URL[url]
  IN  IF ~targetUrl.ok
        THEN [NoCalls EXCEPT !.logged = 1, !.prevented = TRUE]
      ELSE IF isLocal(targetUrl.hostname) THEN NoCalls
      ELSE willNavigateExternal(url)

willNavigate(opts, url) ==
  LET targetUrl == URL[url]
  IN  IF ~targetUrl.ok
        THEN [NoCalls EXCEPT !.logged = 1, !.prevented = TRUE]
      ELSE IF isLocal(targetUrl.hostname) THEN NoCalls
      ELSE IF ~opts.allowExternalNavigate THEN willNavigateExternal(url)
      ELSE NoCalls

\* variant: only foreground tabs count
isTab_foreground(disposition) == disposition = "foreground-tab"

isTab(disposition) ==
  disposition = "foreground-tab" \/ disposition = "background-tab"

windowOpenHandler(opts, details, decision) ==
  IF truthy(opts.baseUrl) /\ isTab(details.disposition)
    THEN [NoCalls EXCEPT !.external = <<details.url>>, !.returned = "deny"]
    ELSE [NoCalls EXCEPT !.returned = decision]

\* variant: adjustTitle is not consulted
adjustWindowTitle_always(opts, title, explicitSet) ==
  IF explicitSet THEN <<title>> ELSE <<>>

\* variant: inferred titles are mirrored too
adjustWindowTitle_inferred(opts, title, explicitSet) ==
  IF opts.adjustTitle THEN <<title>> ELSE <<>>

adjustWindowTitle(opts, title, explicitSet) ==
  IF opts.adjustTitle /\ explicitSet THEN <<title>> ELSE <<>>

pageTitleUpdated(opts, title, explicitSet) ==
  [NoCalls EXCEPT !.setTitle = adjustWindowTitle(opts, title, explicitSet)]

syncWindowTitle(opts, webContentsTitle) ==
  IF opts.adjustTitle THEN <<webContentsTitle>> ELSE <<>>

registerCmd(name) ==
  "if (window.opener && window.opener.registerDesktopChildWindow) "
    \o "window.opener.registerDesktopChildWindow('" \o name \o "', window);"

\* variant: the register script is injected whatever the outcome
finishLoading_alwaysRegisters(opts, succeeded, webContentsTitle) ==
  IF succeeded
    THEN [NoCalls EXCEPT !.finish = <<succeeded>>,
                         !.setTitle = syncWindowTitle(opts, webContentsTitle),
                         !.scripts = <<registerCmd(opts.name)>>]
    ELSE [NoCalls EXCEPT !.finish = <<succeeded>>,
                         !.scripts = <<registerCmd(opts.name)>>]

finishLoading(opts, succeeded, webContentsTitle) ==
  IF succeeded
    THEN [NoCalls EXCEPT !.finish = <<succeeded>>,
                         !.setTitle = syncWindowTitle(opts, webContentsTitle),
                         !.scripts = <<registerCmd(opts.name)>>]
    ELSE [NoCalls EXCEPT !.finish = <<succeeded>>]

\* variant: the flag is left set by the did-finish-load that consumes it
didFinishLoad_keepsFlag(opts, fail, webContentsTitle) ==
  LET toolbars == IF opts.showToolbar THEN 1 ELSE 0
  IN  IF ~fail
        THEN [failLoad |-> fail,
              calls |-> [finishLoading(opts, TRUE, webContentsTitle)
                           EXCEPT !.toolbars = toolbars]]
        ELSE [failLoad |-> fail,
              calls |-> [NoCalls EXCEPT !.toolbars = toolbars]]

\* variant: the finish routine also runs for the did-finish-load that
\* follows a failure
didFinishLoad_finishesAfterFail(opts, fail, webContentsTitle) ==
  LET toolbars == IF opts.showToolbar THEN 1 ELSE 0
  IN  [failLoad |-> FALSE,
       calls |-> [finishLoading(opts, TRUE, webContentsTitle)
                    EXCEPT !.toolbars = toolbars]]

\* did-finish-load: the new value of failLoad and the calls made
didFinishLoad(opts, fail, webContentsTitle) ==
  LET toolbars == IF opts.showToolbar THEN 1 ELSE 0
  IN  IF ~fail
        THEN [failLoad |-> fail,
              calls |-> [finishLoading(opts, TRUE, webContentsTitle)
                           EXCEPT !.toolbars = toolbars]]
        ELSE [failLoad |-> FALSE,
              calls |-> [NoCalls EXCEPT !.toolbars = toolbars]]

\* variant: the failure is not remembered
didFailLoad_noFlag(opts, webContentsTitle) ==
  [failLoad |-> FALSE, calls |-> finishLoading(opts, FALSE, webContentsTitle)]

\* did-fail-load: the new value of failLoad and the calls made
didFailLoad(opts, webContentsTitle) ==
  [failLoad |-> TRUE, calls |-> finishLoading(opts, FALSE, webContentsTitle)]

unregisterOpenerCmd(name) ==
  "if (window.opener && window.opener.unregisterDesktopChildWindow) "
    \o "window.opener.unregisterDesktopChildWindow('" \o name \o "');"

unregisterCmd(name) ==
  "if (window.unregisterDesktopChildWindow) "
    \o "window.unregisterDesktopChildWindow('" \o name \o "');"

\* variant: the close is vetoed until the script has run
closeEvent_vetoes(opts) ==
  IF opts.opener = Undefined
    THEN [NoCalls EXCEPT !.prevented = TRUE,
                         !.scripts = <<unregisterOpenerCmd(opts.name)>>]
    ELSE [NoCalls EXCEPT !.prevented = TRUE,
                         !.scripts = <<unregisterCmd(opts.name)>>]

\* variant: the two script bodies are exchanged
closeEvent_swapped(opts) ==
  IF opts.opener # Undefined
    THEN [NoCalls EXCEPT !.scripts = <<unregisterOpenerCmd(opts.name)>>]
    ELSE [NoCalls EXCEPT !.scripts = <<unregisterCmd(opts.name)>>]

\* variant: the destroyed notification is already sent on the close request
closeEvent_emitsDestroyed(opts) ==
  IF opts.opener = Undefined
    THEN [NoCalls EXCEPT !.scripts = <<unregisterOpenerCmd(opts.name)>>,
                         !.emitted = <<"desktop-browser-window_destroyed">>]
    ELSE [NoCalls EXCEPT !.scripts = <<unregisterCmd(opts.name)>>,
                         !.emitted = <<"desktop-browser-window_destroyed">>]

closeEvent(opts) ==
  IF opts.opener = Undefined
    THEN [NoCalls EXCEPT !.scripts = <<unregisterOpenerCmd(opts.name)>>]
    ELSE [NoCalls EXCEPT !.scripts = <<unregisterCmd(opts.name)>>]

\* variant: the close handler is subscribed for every window
closeSubscribed_all(opts) == TRUE

\* constructor: the close handler is subscribed unless the name marks a satellite
closeSubscribed(opts) == ~includes(opts.name, "satellite")

onClose(opts) == IF closeSubscribed(opts) THEN closeEvent(opts) ELSE NoCalls

WINDOW_DESTROYED == "desktop-browser-window_destroyed"
CLOSE_WINDOW_SHORTCUT == "desktop-browser-close_window_shortcut"

onClosed == [NoCalls EXCEPT !.emitted = <<"desktop-browser-window_destroyed">>]

\* variant: the closed handler drops the reference
closedHandler_releases(w) == [window |-> "null", calls |-> onClosed]

\* closed: the window field afterwards and the calls made
closedHandler(w) == [window |-> w, calls |-> onClosed]

keyPressEvent(processPlatform, input) ==
  IF processPlatform = "darwin" /\ input.meta /\ toLowerCase(input.key) = "w"
    THEN [NoCalls EXCEPT !.emitted = <<CLOSE_WINDOW_SHORTCUT>>]
    ELSE NoCalls

(***************************************************************************)
(* State                                                                   *)
(***************************************************************************)
VARIABLES
  options,       \* this.options, after the constructor's defaults
  window,        \* this.window
  failLoad,      \* this.failLoad
  chromeTitle,   \* the host window's title (window.getTitle())
  contentTitle,  \* the page's title (window.webContents.getTitle())
  pending,       \* script promises not yet settled
  phase,         \* "open", "closing" (close not vetoed) or "closed"
  event,         \* the host event handled last
  calls          \* the calls its handler made

vars == <<options, window, failLoad, chromeTitle, contentTitle, pending, phase,
          event, calls>>

config == <<options>>

Init ==
  /\ \E o \in WindowConstructorOptions :
       /\ options = setDefaults(o)
       /\ window = constructWindow(o)
  /\ failLoad = FALSE
  /\ chromeTitle = InitialTitle
  /\ contentTitle = ""
  /\ pending = 0
  /\ phase = "open"
  /\ event = [type |-> "new"]
  /\ calls = NoCalls

\* the title of the host window after a handler's setTitle calls
titleAfter(c) ==
  IF c.setTitle = <<>> THEN chromeTitle ELSE c.setTitle[Len(c.setTitle)]

\* a handler has run: its calls are recorded, setTitle takes effect and each
\* executeJavaScript leaves one more promise unsettled
Handled(e, c) ==
  /\ pending + Len(c.scripts) <= MaxPending
  /\ event' = e
  /\ calls' = c
  /\ chromeTitle' = titleAfter(c)
  /\ pending' = pending + Len(c.scripts)

WillNavigate ==
  /\ phase = "open"
  /\ \E url \in NavigateUrls :
       Handled([type |-> "will-navigate", url |-> url], willNavigate(options, url))
  /\ UNCHANGED <<config, window, failLoad, contentTitle, phase>>

WindowOpen ==
  /\ phase = "open"
  /\ \E url \in OpenUrls, disposition \in Dispositions, decision \in OpeningDecisions :
       LET details == [url |-> url, disposition |-> disposition]
       IN  Handled([type |-> "window-open", details |-> details, decision |-> decision],
                   windowOpenHandler(options, details, decision))
  /\ UNCHANGED <<config, window, failLoad, contentTitle, phase>>

\* the page's title changes; explicitSet is false when the title is
\* synthesised from the URL
PageTitleUpdated ==
  /\ phase = "open"
  /\ \E title \in Titles, explicitSet \in BOOLEAN :
       /\ Handled([type |-> "page-title-updated", title |-> title,
                   explicitSet |-> explicitSet],
                  pageTitleUpdated(options, title, explicitSet))
       /\ contentTitle' = title
  /\ UNCHANGED <<config, window, failLoad, phase>>

DidFinishLoad ==
  /\ phase = "open"
  /\ LET r == didFinishLoad(options, failLoad, contentTitle)
     IN  /\ Handled([type |-> "did-finish-load"], r.calls)
         /\ failLoad' = r.failLoad
  /\ UNCHANGED <<config, window, contentTitle, phase>>

DidFailLoad ==
  /\ phase = "open"
  /\ LET r == didFailLoad(options, contentTitle)
     IN  /\ Handled([type |-> "did-fail-load"], r.calls)
         /\ failLoad' = r.failLoad
  /\ UNCHANGED <<config, window, contentTitle, phase>>

\* a close request; unless the handler vetoes it the page may still cancel
\* it (beforeunload), otherwise the window goes on to close
Close ==
  /\ phase = "open"
  /\ \E pageCancels \in BOOLEAN :
       LET c == onClose(options)
       IN  /\ Handled([type |-> "close", pageCancels |-> pageCancels], c)
           /\ phase' = IF c.prevented \/ pageCancels THEN "open" ELSE "closing"
  /\ UNCHANGED <<config, window, failLoad, contentTitle>>

Closed ==
  /\ phase = "closing"
  /\ LET r == closedHandler(window)
     IN  /\ Handled([type |-> "closed"], r.calls)
         /\ window' = r.window
  /\ phase' = "closed"
  /\ UNCHANGED <<config, failLoad, contentTitle>>

\* a key is pressed in the page; the handler reads process.platform
KeyPress ==
  /\ phase = "open"
  /\ \E processPlatform \in Platforms, input \in Inputs :
       Handled([type |-> "before-input-event", platform |-> processPlatform,
                input |-> input],
               keyPressEvent(processPlatform, input))
  /\ UNCHANGED <<config, window, failLoad, contentTitle, phase>>

\* variant: a rejected script is injected again
scriptSettled_retries(outcome) ==
  IF outcome = "reject"
    THEN [NoCalls EXCEPT !.logged = 1, !.scripts = <<"retry">>]
    ELSE NoCalls

\* .catch((error) => logger().logError(error)) on a script promise
scriptSettled(outcome) ==
  [NoCalls EXCEPT !.logged = IF outcome = "reject" THEN 1 ELSE 0]

\* the promise of an injected script settles and its .catch runs, with
\* whatever calls that makes
ScriptSettles ==
  /\ pending > 0
  /\ \E outcome \in {"resolve", "reject"} :
       LET c == scriptSettled(outcome)
       IN  /\ event' = [type |-> "script-settled", outcome |-> outcome]
           /\ calls' = c
           /\ chromeTitle' = titleAfter(c)
           /\ pending' = (pending - 1) + Len(c.scripts)
  /\ UNCHANGED <<config, window, failLoad, contentTitle, phase>>

Next ==
  \/ WillNavigate
  \/ WindowOpen
  \/ PageTitleUpdated
  \/ DidFinishLoad
  \/ DidFailLoad
  \/ Close
  \/ Closed
  \/ KeyPress
  \/ ScriptSettles

Spec == Init /\ [][Next]_vars

TypeOK ==
  /\ failLoad \in BOOLEAN
  /\ pending \in 0..MaxPending
  /\ phase \in {"open", "closing", "closed"}
  /\ chromeTitle \in Titles \cup {InitialTitle, ""}
  /\ contentTitle \in Titles \cup {""}

(***************************************************************************)
(* Navigation policy                                                       *)
(***************************************************************************)
navigated == event.type = "will-navigate"

\* the serialised hosts of the loopback addresses; a URL writes the IPv6
\* loopback ::1 as [::1]
LoopbackHosts == {"localhost", "127.0.0.1", "[::1]"}
hasLoopbackHost(url) == URL[url].ok /\ URL[url].hostname \in LoopbackHosts

proceedsInPlace == ~calls.prevented /\ calls.external = <<>>

\* C1: a will-navigate event whose URL fails to parse is vetoed and makes no
\* shell.openExternal call, for either value of allowExternalNavigate.
C1_MalformedVetoed ==
  (navigated /\ ~URL[event.url].ok) => (calls.prevented /\ calls.external = <<>>)

C1_Witness ==
  /\ navigated /\ event.url = "http://exa mple.com/"
  /\ options.allowExternalNavigate
  /\ calls.prevented /\ calls.logged = 1

\* C2: a will-navigate event whose URL has host localhost, 127.0.0.1 or ::1
\* proceeds in place (no veto, no shell.openExternal), for either value of
\* allowExternalNavigate.
C2_LoopbackProceeds ==
  (navigated /\ hasLoopbackHost(event.url)) => proceedsInPlace

\* C3: with allowExternalNavigate false, a well-formed URL whose host is
\* neither a loopback host nor accepted by isSafeHost is vetoed and handed to
\* shell.openExternal exactly once, as the original URL string.
C3_ExternalOpened ==
  (/\ navigated /\ URL[event.url].ok /\ ~hasLoopbackHost(event.url)
   /\ ~options.allowExternalNavigate
   /\ ~isSafeHost(URL[event.url].host))
    => (calls.prevented /\ calls.external = <<event.url>>)

C3_Witness ==
  /\ navigated /\ event.url = "https://Evil.Example.com"
  /\ ~options.allowExternalNavigate
  /\ calls.prevented /\ calls.external = <<"https://Evil.Example.com">>

\* C4: with allowExternalNavigate true, every well-formed URL whose host is
\* not a loopback host proceeds in place, safe host or not.
C4_AllowedProceeds ==
  (/\ navigated /\ URL[event.url].ok /\ ~hasLoopbackHost(event.url)
   /\ options.allowExternalNavigate)
    => proceedsInPlace

C4_Witness ==
  /\ navigated /\ event.url = "https://Evil.Example.com"
  /\ ~isSafeHost(URL[event.url].host)
  /\ options.allowExternalNavigate
  /\ proceedsInPlace

(***************************************************************************)
(* Load completion and title synchronisation                               *)
(***************************************************************************)
\* C5: did-fail-load immediately followed by did-finish-load runs
\* finishLoading once, with false, and never with true; the pair leaves
\* failLoad false, and a did-finish-load that finds failLoad false runs
\* finishLoading(true).
C5_FailThenFinish ==
  [][ /\ (event.type = "did-fail-load" /\ event'.type = "did-finish-load")
           => (calls.finish = <<FALSE>> /\ calls'.finish = <<>> /\ ~failLoad')
      /\ (~failLoad /\ event'.type = "did-finish-load")
           => calls'.finish = <<TRUE>> ]_vars

\* a did-finish-load that ran no finish routine: it consumed a failure
C5_Witness ==
  event.type = "did-finish-load" /\ calls.finish = <<>> /\ ~failLoad

\* C6: with adjustTitle false (given or defaulted) no step changes the title
\* of the host window or calls setTitle: not a page-title-updated event,
\* explicit or inferred, and not the sync after a successful load.
C6_TitleUntouched ==
  [][ ~options.adjustTitle
        => (chromeTitle' = chromeTitle /\ calls'.setTitle = <<>>) ]_vars

C6_Witness ==
  /\ ~options.adjustTitle
  /\ event.type = "page-title-updated" /\ event.explicitSet
  /\ event.title # chromeTitle

\* C7: with adjustTitle true, a page-title-updated event with explicitSet
\* sets the title of the host window to the event's title, and one without
\* explicitSet leaves it as it was.
C7_ExplicitTitleMirrored ==
  [][ (options.adjustTitle /\ event'.type = "page-title-updated")
        => IF event'.explicitSet
             THEN chromeTitle' = event'.title /\ calls'.setTitle = <<event'.title>>
             ELSE chromeTitle' = chromeTitle /\ calls'.setTitle = <<>> ]_vars

C7_Witness ==
  /\ options.adjustTitle
  /\ event.type = "page-title-updated" /\ event.explicitSet
  /\ event.title = "Plot Zoom" /\ chromeTitle = "Plot Zoom"
  /\ calls.setTitle = <<"Plot Zoom">>

(***************************************************************************)
(* New-window requests and the close handshake                             *)
(***************************************************************************)
isUnregisterScript(cmd) ==
  cmd \in {unregisterOpenerCmd(options.name), unregisterCmd(options.name)}

\* C8: a close event of a window whose name contains 'satellite' injects no
\* unregister script; a close event of any other window injects exactly one.
C8_SatelliteNoUnregister ==
  [][ event'.type = "close"
        => IF includes(options.name, "satellite")
             THEN calls'.scripts = <<>> /\ pending' = pending
             ELSE /\ Len(calls'.scripts) = 1
                  /\ isUnregisterScript(calls'.scripts[1])
                  /\ pending' = pending + 1 ]_vars

C8_Witness ==
  /\ event.type = "close"
  /\ options.name = "_rstudio_satellite_plot"
  /\ calls.scripts = <<>>

\* C9: a new-window request with a non-empty baseUrl and a foreground-tab or
\* background-tab disposition makes one shell.openExternal call with the
\* requested URL and is denied; any other request makes no such call and
\* returns what appState().windowOpening() decides.
C9_WindowOpenArbitration ==
  event.type = "window-open"
    => IF /\ options.baseUrl \notin {Undefined, Some("")}
          /\ event.details.disposition \in {"foreground-tab", "background-tab"}
         THEN calls.external = <<event.details.url>> /\ calls.returned = "deny"
         ELSE calls.external = <<>> /\ calls.returned = event.decision

C9_Witness ==
  /\ event.type = "window-open"
  /\ options.baseUrl = Some("http://localhost:8787/")
  /\ event.details.disposition = "background-tab"
  /\ event.decision = "allow"
  /\ calls.external = <<event.details.url>> /\ calls.returned = "deny"

\* C10: no close event is vetoed: unless the page itself cancels it, the
\* window goes on to close with the unregister script still unsettled; the
\* settling of an injected script, resolved or rejected, does nothing but
\* log a rejection.
C10_CloseNeverBlocked ==
  [][ /\ event'.type = "close"
           => /\ ~calls'.prevented
              /\ ~event'.pageCancels => phase' = "closing"
      /\ event'.type = "script-settled"
           => /\ phase' = phase
              /\ calls' = [NoCalls EXCEPT
                             !.logged = IF event'.outcome = "reject" THEN 1 ELSE 0]
      /\ (phase = "closing" /\ event'.type = "closed") => pending' = pending ]_vars

\* the window has closed while the unregister script is still unsettled
C10_Witness ==
  /\ event.type = "closed" /\ phase = "closed"
  /\ ~includes(options.name, "satellite")
  /\ pending > 0

(***************************************************************************)
(* Destruction                                                             *)
(***************************************************************************)
emitsDestroyed(c) ==
  \E i \in 1..Len(c.emitted) : c.emitted[i] = "desktop-browser-window_destroyed"

\* C11: the closed event makes the wrapper emit WINDOW_DESTROYED exactly
\* once, satellite or not; no other event (close request, load failure, key
\* press, ...) makes it emit WINDOW_DESTROYED.
C11_DestroyedOnClosedOnly ==
  IF event.type = "closed"
    THEN calls.emitted = <<"desktop-browser-window_destroyed">>
    ELSE ~emitsDestroyed(calls)

C11_Witness ==
  /\ event.type = "closed"
  /\ includes(options.name, "satellite")
  /\ calls.emitted = <<WINDOW_DESTROYED>>

\* C12 as claimed: a did-finish-load that finds failLoad set clears it and
\* makes no call at all, the toolbar included.
C12_ConsumedNoAction ==
  [][ (failLoad /\ event'.type = "did-finish-load")
        => (~failLoad' /\ calls' = NoCalls /\ chromeTitle' = chromeTitle
            /\ pending' = pending) ]_vars

\* C12, amended: a did-finish-load that finds failLoad set clears it, runs no
\* finish routine, syncs no title and injects no script; the one call it
\* makes is createAndShowToolbar, when showToolbar is set.
C12_ConsumedToolbarOnly ==
  [][ (failLoad /\ event'.type = "did-finish-load")
        => /\ ~failLoad'
           /\ calls' = [NoCalls EXCEPT !.toolbars = IF options.showToolbar THEN 1 ELSE 0]
           /\ chromeTitle' = chromeTitle
           /\ pending' = pending ]_vars

\* a consumed did-finish-load that attached the toolbar
C12_Witness ==
  /\ event.type = "did-finish-load" /\ calls.finish = <<>> /\ ~failLoad
  /\ options.showToolbar /\ calls.toolbars = 1
  /\ options.adjustTitle /\ chromeTitle # contentTitle

\* C13 as claimed: after the closed event the window field no longer refers
\* to the host window it referred to.
C13_ReferenceReleased ==
  [][ event'.type = "closed" => window' # window ]_vars

\* C13, amended: the closed handler leaves the window field as it is; the
\* wrapper still refers to the closed host window.
C13_ReferenceKept ==
  [][ event'.type = "closed" => window' = window ]_vars

C13_Witness ==
  event.type = "closed" /\ phase = "closed" /\ window = "adoptedWindow"

(***************************************************************************)
(* Navigation policy, continued                                            *)
(***************************************************************************)
\* C14: with allowExternalNavigate false, a well-formed URL whose host is not
\* a loopback host and is accepted by isSafeHost proceeds in place.
C14_SafeHostProceeds ==
  (/\ navigated /\ URL[event.url].ok /\ ~hasLoopbackHost(event.url)
   /\ ~options.allowExternalNavigate
   /\ isSafeHost(URL[event.url].host))
    => proceedsInPlace

C14_Witness ==
  /\ navigated /\ event.url = "https://www.youtube.com/watch"
  /\ ~options.allowExternalNavigate
  /\ proceedsInPlace

(***************************************************************************)
(* The finish routine                                                      *)
(***************************************************************************)
registersThisWindow(cmd) ==
  includes(cmd, "window.opener.registerDesktopChildWindow('" \o options.name \o "', window);")

\* C15: a did-finish-load that finds failLoad clear runs finishLoading(true):
\* with adjustTitle the host window's title becomes the page's current
\* title, and exactly one register script naming this window is injected;
\* finishLoading(false), run by did-fail-load, sets no title and injects
\* no script.
C15_FinishRoutine ==
  [][ /\ (~failLoad /\ event'.type = "did-finish-load")
           => /\ calls'.finish = <<TRUE>>
              /\ IF options.adjustTitle
                   THEN calls'.setTitle = <<contentTitle>> /\ chromeTitle' = contentTitle
                   ELSE calls'.setTitle = <<>> /\ chromeTitle' = chromeTitle
              /\ Len(calls'.scripts) = 1 /\ registersThisWindow(calls'.scripts[1])
              /\ pending' = pending + 1
      /\ event'.type = "did-fail-load"
           => /\ calls'.finish = <<FALSE>>
              /\ calls'.setTitle = <<>> /\ chromeTitle' = chromeTitle
              /\ calls'.scripts = <<>> /\ pending' = pending ]_vars

\* the sync copied a title that only an inferred update had carried
C15_Witness ==
  /\ event.type = "did-finish-load" /\ calls.finish = <<TRUE>>
  /\ options.adjustTitle
  /\ calls.setTitle = <<"Plot Zoom">> /\ chromeTitle = "Plot Zoom"
  /\ Len(calls.scripts) = 1

(***************************************************************************)
(* The close handshake, continued                                          *)
(***************************************************************************)
\* C16: the close event of a non-satellite window injects exactly one
\* script: without an opener it calls
\* window.opener.unregisterDesktopChildWindow(name) if window.opener and
\* that function exist; with an opener it calls
\* window.unregisterDesktopChildWindow(name) if that function exists.
C16_UnregisterScriptBody ==
  (event.type = "close" /\ ~includes(options.name, "satellite"))
    => /\ Len(calls.scripts) = 1
       /\ LET cmd == calls.scripts[1]
          IN  IF options.opener = Undefined
                THEN /\ includes(cmd, "if (window.opener && window.opener.unregisterDesktopChildWindow)")
                     /\ includes(cmd, " window.opener.unregisterDesktopChildWindow('"
                                        \o options.name \o "');")
                ELSE /\ includes(cmd, "if (window.unregisterDesktopChildWindow)")
                     /\ includes(cmd, " window.unregisterDesktopChildWindow('"
                                        \o options.name \o "');")
                     /\ ~includes(cmd, "window.opener")

C16_Witness ==
  /\ event.type = "close"
  /\ options.name = "Satellite_1"
  /\ options.opener # Undefined
  /\ calls.scripts = <<"if (window.unregisterDesktopChildWindow) window.unregisterDesktopChildWindow('Satellite_1');">>

\* C17: the settling of an injected script, at whatever point it is
\* delivered, logs a rejection and does nothing else: it injects no script
\* again, leaves failLoad, both titles, the window and its phase as they
\* were, and makes no other call.
C17_SettlingOnlyLogs ==
  [][ event'.type = "script-settled"
        => /\ calls' = [NoCalls EXCEPT
                          !.logged = IF event'.outcome = "reject" THEN 1 ELSE 0]
           /\ pending' = pending - 1
           /\ failLoad' = failLoad
           /\ chromeTitle' = chromeTitle /\ contentTitle' = contentTitle
           /\ window' = window /\ phase' = phase /\ options' = options ]_vars

\* a register script is rejected after a later did-fail-load was handled
C17_Witness ==
  /\ event.type = "script-settled" /\ event.outcome = "reject"
  /\ calls.logged = 1
  /\ failLoad /\ pending = 0

(***************************************************************************)
(* Invariants of the wrapper                                               *)
(***************************************************************************)
\* C18: the wrapper's host window is the supplied existingWindow when one is
\* given and a newly created window otherwise, in every reachable state: no
\* handler replaces it.
C18_OneHostWindow ==
  window = IF options.existingWindow = Undefined
             THEN "createdWindow"
             ELSE CHOOSE w \in options.existingWindow : TRUE

C18_Witness ==
  /\ window = "adoptedWindow" /\ options.existingWindow = Some("adoptedWindow")
  /\ phase = "closed"

\* C19: failLoad is set by did-fail-load, cleared by did-finish-load and
\* changed by nothing else, so it is true exactly when the latest load event
\* was a did-fail-load; a did-finish-load runs finishLoading(true) exactly
\* when it finds failLoad clear, and otherwise is consumed without the finish
\* routine.
C19_FailLoadTracksLoads ==
  [][ /\ event'.type = "did-fail-load" => failLoad'
      /\ event'.type = "did-finish-load"
           => (~failLoad' /\ calls'.finish = IF failLoad THEN <<>> ELSE <<TRUE>>)
      /\ event'.type \notin {"did-fail-load", "did-finish-load"}
           => failLoad' = failLoad ]_vars

\* the flag outlives a navigation that came between the failure and the
\* did-finish-load
C19_Witness ==
  failLoad /\ event.type = "will-navigate" /\ ~calls.prevented

\* C20: a will-navigate event makes at most one shell.openExternal call, and
\* only together with a veto; a veto without such a call happens only for a
\* URL that fails to parse.
C20_VetoAndExternal ==
  navigated
    => /\ Len(calls.external) <= 1
       /\ calls.external # <<>> => calls.prevented
       /\ (calls.prevented /\ calls.external = <<>>) => ~URL[event.url].ok

C20_Witness ==
  /\ navigated /\ event.url = "//example.com/x"
  /\ calls.prevented /\ calls.external = <<>>
  /\ ~options.allowExternalNavigate
====
